---------------------------- MODULE Spec2Model ----------------------------
(***************************************************************************)
(* A state-machine model of the infinite-sites operators of simuPOP's      *)
(* sandbox module (src/src/sandbox.cpp): InfSitesMutator, RevertFixedSites *)
(* InfSitesRecombinator and InfSitesSelector.                              *)
(*                                                                         *)
(* Code indices are 0-based; individuals, ploidy copies and chromosome     *)
(* regions keep the code's 0-based numbering, a genotype slot is a         *)
(* sequence whose element j+1 is the code's *(geno + j).                    *)
(***************************************************************************)
EXTENDS Integers, Sequences, FiniteSets, TLC

VARIABLES
    ranges,        \* m_ranges.elems(): ranges[ch] = <<beg, end>>, ch = 0..nCh-1
    subPopSizes,   \* pop.subPopSize(sp), sp = 0..numSubPop-1
    m_model,       \* InfSitesMutator::m_model (2 = infinite sites)
    m_rate,        \* InfSitesRecombinator::m_rate: "0", "0.5" or "r" (any other rate)
    m_selDist,     \* InfSitesSelector::m_selDist: [kind, s, h], kind "func" (a user's
                   \* function), "constant" or "gamma"
    m_mode,        \* InfSitesSelector::m_mode
    numLoci,       \* pop.numLoci(ch): capacity of every slot of region ch
    geno,          \* pop: geno[i][p][ch] is the slot of individual i, copy p, region ch
    m_mutants,     \* InfSitesMutator::m_mutants, the MutantRegistry (a std::set)
    pc,            \* "idle", "apply" (in InfSitesMutator::apply), "mating",
                   \* "select" (in InfSitesSelector::apply) or "crashed"
    sp,            \* apply: position of the subpopulation loop
    indIndex,      \* apply: position of the individual loop
    loc,           \* apply: the cursor of the current individual
    saturated,     \* apply: the local flag
    nMut,          \* number of mutation events simulated so far (bounded)
    offNumLoci,    \* offPop.numLoci(ch) during a mating pass
    offGeno,       \* offPop: the offspring generation being filled
    offIndex,      \* mating: the offspring the next applyDuringMating call is for
    m_selFactory,  \* InfSitesSelector::m_selFactory, the SelectionCoefficientCache
    m_newMutants,  \* InfSitesSelector::m_newMutants, the sites created by this apply
    m_additive,    \* InfSitesSelector::m_additive, the pure-additive flag
    selInd,        \* InfSitesSelector::apply: the next individual to evaluate
    resolvedNow,   \* the sites getFitnessValue was called for in this apply, in order
    resolveCount,  \* per site, the calls of getFitnessValue in the run (2: two or more)
    ev             \* what the last operation did (the log lines it wrote included)

popVars == <<numLoci, geno>>

offVars == <<offNumLoci, offGeno, offIndex>>

cfgVars == <<ranges, subPopSizes, m_model, m_rate, m_selDist, m_mode>>

selVars == <<m_selFactory, m_newMutants, m_additive, selInd, resolvedNow, resolveCount>>

mutVars == <<sp, indIndex, loc, saturated>>

vars == <<ranges, subPopSizes, m_model, m_rate, m_selDist, m_mode, numLoci, geno,
          m_mutants, pc, sp, indIndex, loc, saturated, nMut, offNumLoci, offGeno,
          offIndex, m_selFactory, m_newMutants, m_additive, selInd, resolvedNow,
          resolveCount, ev>>

-----------------------------------------------------------------------------
(* Bounds of the model *)

\* mutation events (iterations of the while loop of apply) in one behaviour
MaxMut == 3

\* slot capacity of a freshly built population (pop.numLoci(ch) at the start)
InitLoci == 1

-----------------------------------------------------------------------------
(* Program constants *)

\* the number of loci apply adds to a region when a slot is full
LociAdded == 10

Ploidy == 2

-----------------------------------------------------------------------------
(* Helpers over sets and sequences *)

Min(S) == CHOOSE x \in S : \A y \in S : x <= y

Max(S) == CHOOSE x \in S : \A y \in S : x >= y

RECURSIVE SumTo(_, _)
SumTo(f, n) == IF n < 0 THEN 0 ELSE f[n] + SumTo(f, n - 1)

Zeros(n) == [j \in 1..n |-> 0]

\* the non-zero entries of a slot, as a set
Sites(slot) == {slot[j] : j \in 1..Len(slot)} \ {0}

\* the number of non-zero entries of a slot
NonZero(slot) == Cardinality({j \in 1..Len(slot) : slot[j] # 0})

\* the sorted sequence of the elements of a finite set of numbers (std::set order)
RECURSIVE SortedSeq(_)
SortedSeq(S) == IF S = {} THEN <<>> ELSE <<Min(S)>> \o SortedSeq(S \ {Min(S)})

-----------------------------------------------------------------------------
(* The population (Population / Individual accessors) *)

NumChrom == Cardinality(DOMAIN ranges)

Chroms == 0..(NumChrom - 1)

NumSubPop == Cardinality(DOMAIN subPopSizes)

PopSize == SumTo(subPopSizes, NumSubPop - 1)

Inds == 0..(PopSize - 1)

\* first individual of subpopulation s (pop.subPopBegin(s))
SubPopBegin(s) == SumTo(subPopSizes, s - 1)

\* ind.genoBegin(p) .. ind.genoEnd(p): one ploidy copy, all regions in order
RECURSIVE CopyFrom(_, _, _, _)
CopyFrom(g, i, p, ch) ==
    IF ch >= NumChrom THEN <<>> ELSE g[i][p][ch] \o CopyFrom(g, i, p, ch + 1)

GenoCopy(g, i, p) == CopyFrom(g, i, p, 0)

\* ind.genoBegin() .. ind.genoEnd(): both copies of one individual
GenoInd(g, i) == GenoCopy(g, i, 0) \o GenoCopy(g, i, 1)

\* the sites found by a scan of pop.genoBegin(false) .. pop.genoEnd(false)
PopSites(g) == UNION {Sites(g[i][p][ch]) : i \in Inds, p \in 0..(Ploidy - 1), ch \in Chroms}

\* the scan of the genotypes is skipped: a registered position counts as present
InPopulationAlways(g, x) == TRUE

\* find(pop.genoBegin(false), pop.genoEnd(false), ToAllele(x)) != pop.genoEnd(false):
\* some entry of the population has the value x (an empty entry has the value 0)
InPopulation(g, x) ==
    \E i \in Inds, p \in 0..(Ploidy - 1), ch \in Chroms :
        \E j \in 1..Len(g[i][p][ch]) : g[i][p][ch][j] = x

\* the (individual, copy, region) slots that hold site x
SlotsWith(g, x) ==
    {s \in Inds \X (0..(Ploidy - 1)) \X Chroms : x \in Sites(g[s[1]][s[2]][s[3]])}

\* pop.addLoci(addedChrom, added) with n loci appended to region ch: every
\* individual's slot of that region gets n more entries, all 0
AddLoci(g, ch, n) ==
    [i \in Inds |-> [p \in 0..(Ploidy - 1) |->
        [c \in Chroms |-> IF c = ch THEN g[i][p][c] \o Zeros(n) ELSE g[i][p][c]]]]

EmptyGeno(nl) ==
    [i \in Inds |-> [p \in 0..(Ploidy - 1) |-> [c \in Chroms |-> Zeros(nl[c])]]]

-----------------------------------------------------------------------------
(* InfSitesMutator::locateVacantLocus *)

\* the largest ULONG, 2^64 - 1 in the program: the model's integers end here
ULongMax == 2147483647

\* x - 1 on ULONG
Dec(x) == IF x = 0 THEN ULongMax ELSE x - 1

\* ++it on a std::set iterator at element x: the next larger element, or
\* 0 for m_mutants.end() (0 never follows an element)
SetNext(S, x) == IF \E y \in S : y > x THEN Min({y \in S : y > x}) ELSE 0

\* for (; it1 != m_mutants.end() && loc1 != end; ++it1, ++loc1)
\*     if (*it1 != loc1) return loc1;          (0: the loop ends without a return)
RECURSIVE ForwardScan(_, _, _, _)
ForwardScan(S, it1, loc1, end) ==
    IF it1 = 0 \/ loc1 = end THEN 0
    ELSE IF it1 # loc1 THEN loc1
    ELSE ForwardScan(S, SetNext(S, it1), loc1 + 1, end)

\* reverse_iterator it2(it); --it2;  leaves it2 on the element it points to,
\* so *it2 is the drawn loc itself, and a further --it2 moves to larger elements
\* (it2 is -1 once it has left the set)
\* for (; it2 != m_mutants.rend() && loc2 != beg; --it2, --loc2)
\*     if (*it2 != loc2) return loc2;          (-1: the loop ends without a return)
RECURSIVE BackwardScan(_, _, _, _)
BackwardScan(S, it2, loc2, beg) ==
    IF it2 = -1 \/ loc2 = beg THEN -1
    ELSE IF it2 # loc2 THEN loc2
    ELSE BackwardScan(S, IF SetNext(S, it2) = 0 THEN -1 ELSE SetNext(S, it2),
                      Dec(loc2), beg)

\* m_mutants.clear() without the loop that inserts the entries again
RebuildNothing(g) == {}

\* m_mutants.clear(); then every non-zero entry of the population is inserted
Rebuild(g) == PopSites(g)

\* The scans after the rebuild run on an iterator that m_mutants.clear() has
\* destroyed (undefined behaviour): the forward loop may return any loc_1
\* between loc + 1 and end - 1 or fall through, the backward loop starts at
\* loc_2 = loc - 1 and is not entered when that is beg, and the process may
\* fault. "crash" stands for the fault.
RetryResults(drawn, beg, end) ==
    {[ret |-> r, crash |-> FALSE] :
        r \in {0} \cup ((drawn + 1)..(end - 1))
              \cup (IF Dec(drawn) # beg THEN {Dec(drawn)} ELSE {})}
    \cup {[ret |-> 0, crash |-> TRUE]}

\* The results of locateVacantLocus(pop, beg, end) when randInt draws `drawn`:
\* the set of [ret, reg, rebuilt, crash] with ret the value returned and reg
\* the registry afterwards.
LocateWith(g, S, beg, end, drawn) ==
    LET fwd == ForwardScan(S, SetNext(S, drawn), drawn + 1, end)
        bwd == BackwardScan(S, drawn, Dec(drawn), beg)
    IN  IF drawn \notin S
        THEN {[ret |-> drawn, reg |-> S, rebuilt |-> FALSE, crash |-> FALSE]}
        ELSE IF fwd # 0
        THEN {[ret |-> fwd, reg |-> S, rebuilt |-> FALSE, crash |-> FALSE]}
        ELSE IF bwd # -1
        THEN {[ret |-> bwd, reg |-> S, rebuilt |-> FALSE, crash |-> FALSE]}
        ELSE {[ret |-> r.ret, reg |-> Rebuild(g), rebuilt |-> TRUE, crash |-> r.crash] :
                 r \in RetryResults(drawn, beg, end)}

\* ULONG loc = getRNG().randInt(end - beg) + beg, then the search
locateVacantLocus(g, S, beg, end) ==
    UNION {LocateWith(g, S, beg, end, drawn) : drawn \in beg..(end - 1)}

-----------------------------------------------------------------------------
(* InfSitesMutator::apply *)

\* width[i]: cumulative width of regions 0..i
Width(i) == SumTo([c \in Chroms |-> ranges[c][2] - ranges[c][1]], i)

ploidyWidth == Width(NumChrom - 1)

indWidth == Ploidy * ploidyWidth

\* the ploidy copy a cursor value falls in: (loc - 1) / ploidyWidth
CursorCopy(l) == (l - 1) \div ploidyWidth

\* the region: the first reg with mutLoc < width[reg]
CursorChrom(l) ==
    LET off == (l - 1) - CursorCopy(l) * ploidyWidth
    IN  IF \E reg \in Chroms : off < Width(reg)
        THEN Min({reg \in Chroms : off < Width(reg)}) ELSE 0

\* the position without the correction "if (ch > 0) mutLoc -= width[ch - 1]"
CursorPosNoOffset(l) ==
    LET off == (l - 1) - CursorCopy(l) * ploidyWidth
    IN  off + ranges[CursorChrom(l)][1]

\* the position: mutLoc += ranges[ch][0]; if (ch > 0) mutLoc -= width[ch - 1]
CursorPos(l) ==
    LET off == (l - 1) - CursorCopy(l) * ploidyWidth
        ch == CursorChrom(l)
    IN  off + ranges[ch][1] - (IF ch > 0 THEN Width(ch - 1) ELSE 0)

\* Individual & ind = pop.individual(indIndex): the absolute index indIndex,
\* whatever the subpopulation s being walked
ApplyIndividual(s, idx) == idx

\* subPopList subPops = applicableSubPops(pop): all subpopulations, in order
ApplicableSubPops == 0..(NumSubPop - 1)

\* the registry is never consulted: every position counts as unregistered
Model2MissingAlways(g, S, mutLoc) == TRUE

\* "if (m_mutants.find(mutLoc) != m_mutants.end())" fails: mutLoc is not registered
Model2Missing(g, S, mutLoc) == mutLoc \notin S

\* the flag is never honoured
SaturatedSkipNever(sat) == FALSE

\* "if (saturated)": the mutation is logged with code 3 and dropped
SaturatedSkip(sat) == sat

\* the branch "if (m_model == 2)": what to do with a mutation mapped to mutLoc.
\* A set of [act, pos, reg, reloc, rebuilt, sat, lines]; act is "place" (go on
\* to write pos), "reject" (saturated: logged and dropped), "fail" (no vacant
\* locus found: logged, dropped, saturated from now on) or "crash".
Resolve(g, S, sat, ch, mutLoc, idx) ==
    IF m_model # 2
    THEN {[act |-> "place", pos |-> mutLoc, reg |-> S, reloc |-> FALSE,
           rebuilt |-> FALSE, sat |-> sat, lines |-> <<>>]}
    ELSE IF SaturatedSkip(sat)
    THEN {[act |-> "reject", pos |-> mutLoc, reg |-> S, reloc |-> FALSE,
           rebuilt |-> FALSE, sat |-> sat, lines |-> << <<mutLoc, idx, 3>> >>]}
    ELSE IF Model2Missing(g, S, mutLoc) \/ ~InPopulation(g, mutLoc)
    THEN {[act |-> "place", pos |-> mutLoc, reg |-> S \cup {mutLoc}, reloc |-> FALSE,
           rebuilt |-> FALSE, sat |-> sat, lines |-> <<>>]}
    ELSE {IF r.crash
          THEN [act |-> "crash", pos |-> mutLoc, reg |-> r.reg, reloc |-> FALSE,
                rebuilt |-> r.rebuilt, sat |-> sat, lines |-> <<>>]
          ELSE IF r.ret # 0
          THEN [act |-> "place", pos |-> r.ret, reg |-> r.reg \cup {r.ret},
                reloc |-> TRUE, rebuilt |-> r.rebuilt, sat |-> sat,
                lines |-> << <<mutLoc, idx, 2>> >>]
          ELSE [act |-> "fail", pos |-> mutLoc, reg |-> r.reg, reloc |-> FALSE,
                rebuilt |-> r.rebuilt, sat |-> TRUE, lines |-> << <<mutLoc, idx, 3>> >>]
          : r \in locateVacantLocus(g, S, ranges[ch][1], ranges[ch][2])}

\* the slot is never taken as full: no loci are added
SlotFullNever(slot) == FALSE

\* if (*(geno + nLoci - 1) != 0): the slot's last entry is taken
SlotFull(slot) == slot[Len(slot)] # 0

\* DBG_FAILIF(mutLoc >= ModuleMaxAllele, ...): of the positions of the model
\* only the one that has wrapped below 0 exceeds the largest allele
ExceedsMaxAllele(mutLoc) == mutLoc = ULongMax

\* a back mutation that clears the entry where it is found, without moving the
\* last entry into it
WriteSlotInPlace(slot, mutLoc) ==
    LET hit == {j \in 1..Len(slot) : slot[j] = 0 \/ slot[j] = mutLoc}
    IN  IF hit = {} THEN [slot |-> slot, code |-> -1]
        ELSE LET j == Min(hit)
             IN  IF slot[j] = 0
                 THEN [slot |-> [slot EXCEPT ![j] = mutLoc], code |-> 0]
                 ELSE [slot |-> [slot EXCEPT ![j] = 0], code |-> 1]

\* the scan "for (size_t j = 0; j < nLoci; ++j)" over a slot: [slot, code],
\* code 0 a new mutation, 1 a back mutation, -1 nothing written
WriteSlot(slot, mutLoc) ==
    LET hit == {j \in 1..Len(slot) : slot[j] = 0 \/ slot[j] = mutLoc}
    IN  IF hit = {} THEN [slot |-> slot, code |-> -1]
        ELSE LET j == Min(hit)
             IN  IF slot[j] = 0
                 THEN [slot |-> [slot EXCEPT ![j] = mutLoc], code |-> 0]
                 ELSE LET zs == {k \in (j + 1)..Len(slot) : slot[k] = 0}
                      IN  IF zs = {} THEN [slot |-> slot, code |-> -1]
                          ELSE LET k == Min(zs)
                               IN  [slot |-> [slot EXCEPT ![j] = slot[k - 1],
                                                          ![k - 1] = 0],
                                    code |-> 1]

NoEvent == [kind |-> "none", mapped |-> 0, pos |-> 0, ind |-> 0, sp |-> 0, idx |-> 0,
            p |-> 0, ch |-> 0, reloc |-> FALSE, rebuilt |-> FALSE, grown |-> FALSE,
            lines |-> <<>>, fixed |-> {}, mom |-> 0, dad |-> 0,
            fast |-> FALSE, used |-> <<>>, got |-> <<>>, fit |-> <<>>]

\* the position of the two loops after the individual (s, idx) is done:
\* [done, sp, idx]
NextIndividual(s, idx) ==
    IF idx + 1 < subPopSizes[s]
    THEN [done |-> FALSE, sp |-> s, idx |-> idx + 1]
    ELSE IF \E t \in ApplicableSubPops : t > s /\ subPopSizes[t] > 0
    THEN [done |-> FALSE,
          sp |-> Min({t \in ApplicableSubPops : t > s /\ subPopSizes[t] > 0}),
          idx |-> 0]
    ELSE [done |-> TRUE, sp |-> 0, idx |-> 0]

\* apply is entered: saturated = false, the loops start
ApplyBegin ==
    /\ pc = "idle"
    /\ PopSize > 0
    /\ pc' = "apply"
    /\ sp' = Min({t \in ApplicableSubPops : subPopSizes[t] > 0})
    /\ indIndex' = 0
    /\ loc' = 0
    /\ saturated' = FALSE
    /\ ev' = NoEvent
    /\ UNCHANGED <<cfgVars, popVars, offVars, selVars, m_mutants, nMut>>

\* one iteration of the while loop that does not break: the geometric draw
\* leaves the cursor within indWidth and the mutation is resolved and written.
\* A position that exceeds the largest allele is stored by an optimized build
\* and raises RuntimeError in a build with DBG_FAILIF enabled (failif).
MutationEvent ==
    /\ pc = "apply"
    /\ nMut < MaxMut
    /\ \E l \in (loc + 1)..indWidth :
         LET i == ApplyIndividual(sp, indIndex)
             p == CursorCopy(l)
             ch == CursorChrom(l)
             mutLoc == CursorPos(l)
         IN  \E r \in Resolve(geno, m_mutants, saturated, ch, mutLoc, indIndex) :
               LET full == SlotFull(geno[i][p][ch])
                   g1 == IF full THEN AddLoci(geno, ch, LociAdded) ELSE geno
                   w == WriteSlot(g1[i][p][ch], r.pos)
               IN  /\ loc' = l
                   /\ nMut' = nMut + 1
                   /\ m_mutants' = r.reg
                   /\ saturated' = r.sat
                   /\ IF r.act = "place"
                      THEN \E failif \in {FALSE} \cup {ExceedsMaxAllele(r.pos) /\ w.code = 0} :
                           /\ geno' = IF failif THEN g1 ELSE [g1 EXCEPT ![i][p][ch] = w.slot]
                           /\ numLoci' = IF full
                                         THEN [numLoci EXCEPT ![ch] = @ + LociAdded]
                                         ELSE numLoci
                           /\ pc' = IF failif THEN "crashed" ELSE "apply"
                           /\ ev' = [kind |-> CASE failif -> "crash"
                                                [] w.code = 0 -> "new"
                                                [] w.code = 1 -> "back"
                                                [] OTHER -> "nowrite",
                                     mapped |-> mutLoc, pos |-> r.pos, ind |-> i,
                                     sp |-> sp, idx |-> indIndex, p |-> p, ch |-> ch,
                                     reloc |-> r.reloc, rebuilt |-> r.rebuilt,
                                     grown |-> full, fixed |-> {}, mom |-> 0, dad |-> 0,
                                     fast |-> FALSE, used |-> <<>>, got |-> <<>>,
                                     fit |-> <<>>,
                                     lines |-> IF w.code \in {0, 1} /\ ~failif
                                               THEN Append(r.lines, <<r.pos, indIndex, w.code>>)
                                               ELSE r.lines]
                      ELSE /\ UNCHANGED <<geno, numLoci>>
                           /\ pc' = IF r.act = "crash" THEN "crashed" ELSE "apply"
                           /\ ev' = [kind |-> r.act,
                                     mapped |-> mutLoc, pos |-> 0, ind |-> i,
                                     sp |-> sp, idx |-> indIndex, p |-> p, ch |-> ch,
                                     reloc |-> FALSE, rebuilt |-> r.rebuilt,
                                     grown |-> FALSE, fixed |-> {}, mom |-> 0, dad |-> 0,
                                     fast |-> FALSE, used |-> <<>>, got |-> <<>>,
                                     fit |-> <<>>,
                                     lines |-> r.lines]
    /\ UNCHANGED <<cfgVars, offVars, selVars, sp, indIndex>>

\* the geometric draw takes the cursor beyond indWidth: break, next individual;
\* after the last one apply closes the output and returns true
MutationBreak ==
    /\ pc = "apply"
    /\ LET n == NextIndividual(sp, indIndex)
       IN  /\ pc' = IF n.done THEN "idle" ELSE "apply"
           /\ sp' = n.sp
           /\ indIndex' = n.idx
           /\ ev' = IF n.done THEN [NoEvent EXCEPT !.kind = "applied"] ELSE NoEvent
    /\ loc' = 0
    /\ UNCHANGED <<cfgVars, popVars, offVars, selVars, m_mutants, saturated, nMut>>

-----------------------------------------------------------------------------
(* RevertFixedSites::apply *)

\* pop.totNumLoci()
TotNumLoci(nl) == SumTo(nl, NumChrom - 1)

\* the loop "for (; it != it_end; ++it)" from individual i on: commonAlleles is
\* intersected with copy 0 and then copy 1 of each individual, and the call
\* returns as soon as it is empty ({} stands for that return)
RECURSIVE CommonFrom(_, _, _)
CommonFrom(g, i, commonAlleles) ==
    IF i >= PopSize THEN commonAlleles
    ELSE LET common == commonAlleles \cap Sites(GenoCopy(g, i, 0))
             next == common \cap Sites(GenoCopy(g, i, 1))
         IN  IF next = {} THEN {} ELSE CommonFrom(g, i + 1, next)

\* the set written to the output: commonAlleles after the loop
CommonAlleles(g, nl) ==
    IF PopSize = 0 \/ TotNumLoci(nl) = 0 THEN {}
    ELSE IF Sites(GenoCopy(g, 0, 0)) = {} THEN {}
    ELSE CommonFrom(g, 0, Sites(GenoCopy(g, 0, 0)))

\* the common sites are cleared where they stand: the copy keeps its order and
\* its holes
NewAllelesInPlace(copy, commonAlleles, tot) ==
    [j \in 1..tot |-> IF copy[j] \in commonAlleles THEN 0 ELSE copy[j]]

\* new_alleles for one ploidy copy: the copy's sites without the common ones,
\* in std::set order, then 0 up to totNumLoci
NewAlleles(copy, commonAlleles, tot) ==
    LET kept == SortedSeq(Sites(copy) \ commonAlleles)
    IN  kept \o Zeros(tot - Len(kept))

\* std::copy(new_alleles.begin(), new_alleles.end(), it->genoBegin(p)): region
\* ch of the copy receives the entries from its offset on
CopySlot(flat, nl, ch) ==
    LET base == IF ch = 0 THEN 0 ELSE SumTo(nl, ch - 1)
    IN  SubSeq(flat, base + 1, base + nl[ch])

\* only copy 0 of an individual is rewritten
RevertCopyFirst(g, nl, i, p, commonAlleles) ==
    LET flat == NewAlleles(GenoCopy(g, i, p), commonAlleles, TotNumLoci(nl))
    IN  IF p = 0 THEN [ch \in Chroms |-> CopySlot(flat, nl, ch)] ELSE g[i][p]

\* one ploidy copy after the rewrite, region by region
RevertCopy(g, nl, i, p, commonAlleles) ==
    LET flat == NewAlleles(GenoCopy(g, i, p), commonAlleles, TotNumLoci(nl))
    IN  [ch \in Chroms |-> CopySlot(flat, nl, ch)]

\* every copy is rewritten, whether a site is common or not
RevertGenoAlways(g, nl) ==
    [i \in Inds |-> [p \in 0..(Ploidy - 1) |->
        RevertCopy(g, nl, i, p, CommonAlleles(g, nl))]]

\* the genotypes after RevertFixedSites::apply
RevertGeno(g, nl) ==
    LET commonAlleles == CommonAlleles(g, nl)
    IN  IF commonAlleles = {} THEN g
        ELSE [i \in Inds |-> [p \in 0..(Ploidy - 1) |->
                 RevertCopy(g, nl, i, p, commonAlleles)]]

RevertFixedSites ==
    /\ pc = "idle"
    /\ geno' = RevertGeno(geno, numLoci)
    /\ ev' = [NoEvent EXCEPT !.kind = "reverted", !.fixed = CommonAlleles(geno, numLoci)]
    /\ UNCHANGED <<cfgVars, numLoci, offVars, selVars, m_mutants, pc, mutVars, nMut>>

-----------------------------------------------------------------------------
(* InfSitesRecombinator *)

\* the entries of a range up to its first 0: "if (*it == 0) break;"
RECURSIVE UntilZero(_)
UntilZero(s) == IF s = <<>> \/ Head(s) = 0 THEN <<>> ELSE <<Head(s)>> \o UntilZero(Tail(s))

\* the MutCounter built from a scanned range: occurrences of x
Count(s, x) == Cardinality({j \in 1..Len(s) : s[j] = x})

\* the range transmitGenotype0 counts for region ch: with one chromosome, the
\* whole genotype of the parent (both copies, one after the other) up to its
\* first 0; otherwise copy 0 of the region up to its first 0, then copy 1
Counted0(g, par, ch) ==
    IF NumChrom = 1
    THEN UntilZero(GenoInd(g, par))
    ELSE UntilZero(g[par][0][ch]) \o UntilZero(g[par][1][ch])

\* GenoTransmitter::copyChromosome(parent, parPloidy, offspring, ploidy, ch):
\* the offspring's slot receives the parent's slot, entry for entry
copyChromosome(og, slot, off, ploidy, ch) ==
    LET cap == Len(og[off][ploidy][ch])
    IN  [og EXCEPT ![off][ploidy][ch] =
            [j \in 1..cap |-> IF j <= Len(slot) THEN slot[j] ELSE 0]]

\* writing alleles at the slot's begin and filling the rest with 0
FillSlot(alleles, cap) == [j \in 1..cap |-> IF j <= Len(alleles) THEN alleles[j] ELSE 0]

\* One region of transmitGenotype0, given the sites the coin keeps. The slot
\* iterators it, it_end are taken before offPop.addLoci: when the region grows
\* they point into the genotype the growth has released (undefined behaviour),
\* the alleles and the fill are written through them, so the offspring's grown
\* slot receives nothing, or the process faults.  A set of [g, nl, crash].
Transmit0Region(st, g, par, off, ploidy, ch, kept) ==
    LET counted == Counted0(g, par, ch)
        twice == {x \in Sites(counted) : Count(counted, x) = 2}
        alleles == SortedSeq(twice \cup kept)
        cap == st.nl[ch]
        sz == Len(alleles) - cap + 2
    IN  IF Sites(counted) = {}
        THEN {[st EXCEPT !.g[off][ploidy][ch] = Zeros(cap)]}
        ELSE IF Len(alleles) + 1 > cap
        THEN {[g |-> AddLoci(st.g, ch, sz), nl |-> [st.nl EXCEPT ![ch] = @ + sz],
               crash |-> c] : c \in {FALSE, TRUE}}
        ELSE {[st EXCEPT !.g[off][ploidy][ch] = FillSlot(alleles, cap)]}

\* the sites of region ch the coin is flipped for: those counted once (or more
\* than twice)
Coins0(g, par, ch) ==
    LET counted == Counted0(g, par, ch)
    IN  {x \in Sites(counted) : Count(counted, x) # 2}

\* transmitGenotype0(offPop, parent, offIndex, ploidy) from region ch on
RECURSIVE Transmit0From(_, _, _, _, _, _)
Transmit0From(st, g, par, off, ploidy, ch) ==
    IF ch >= NumChrom \/ st.crash THEN {st}
    ELSE UNION {Transmit0From(t, g, par, off, ploidy, ch + 1) :
                  t \in UNION {Transmit0Region(st, g, par, off, ploidy, ch, kept) :
                                 kept \in SUBSET Coins0(g, par, ch)}}

transmitGenotype0(st, g, par, off, ploidy) == Transmit0From(st, g, par, off, ploidy, 0)

\* the entries of a slot that lie in [lo, hi), in slot order
InRange(s, lo, hi) == SelectSeq(s, LAMBDA x : x >= lo /\ x < hi)

\* minAllele[p] after "minAllele[p] -= ranges[ch][0]" is an unsigned value: when
\* the smallest site of the copy lies below the region it wraps around to a
\* value above every coordinate, and "end >= minAllele[p]" is false
EndReachesMin(slot, ch, end) ==
    LET m == Min({ranges[ch][2]} \cup Sites(UntilZero(slot)))
    IN  m >= ranges[ch][1] /\ end >= m - ranges[ch][1]

\* "beg <= maxAllele[p]" after "maxAllele[p] -= ranges[ch][0]"
BegBelowMax(slot, ch, beg) ==
    LET m == Max({ranges[ch][1]} \cup Sites(UntilZero(slot)))
    IN  beg <= m - ranges[ch][1]

\* the last piece: every entry of the active copy from beg to the region's end
LastPiece(slot, ch, beg) == InRange(slot, beg + ranges[ch][1], ranges[ch][2])

\* The do-while loop of transmitGenotype1 for region ch of the parent's two
\* slots par[0], par[1], from the state (alleles, cnt, p, beg, end) on, with
\* every later geometric draw; a draw that takes end to width or beyond is
\* represented by end = width. The set of allele lists that can result.
RECURSIVE CrossLoop(_, _, _, _, _, _, _, _)
CrossLoop(par, ch, width, alleles, cnt, p, beg, end) ==
    LET take == cnt[p] > 0 /\ EndReachesMin(par[p], ch, end) /\ BegBelowMax(par[p], ch, beg)
        piece == IF take
                 THEN InRange(UntilZero(par[p]), beg + ranges[ch][1], end + ranges[ch][1])
                 ELSE <<>>
        alleles2 == alleles \o piece
        cnt2 == [cnt EXCEPT ![p] = @ - Len(piece)]
        p2 == (p + 1) % 2
        left == cnt2[0] > 0 \/ cnt2[1] > 0
    IN  UNION {IF end2 < width /\ left
               THEN CrossLoop(par, ch, width, alleles2, cnt2, p2, end, end2)
               ELSE IF left
               THEN {alleles2 \o LastPiece(par[p2], ch, end)}
               ELSE {alleles2}
               : end2 \in (end + 1)..width}

\* the alleles transmitGenotype1 collects for region ch when the first draw is
\* end < width and the first copy is p
CrossAlleles(par, ch, p, end) ==
    CrossLoop(par, ch, ranges[ch][2] - ranges[ch][1], <<>>,
              [q \in 0..1 |-> Len(UntilZero(par[q]))], p, 0, end)

\* "set alleles": the region grows when alleles.size() + 1 > offPop.numLoci(ch),
\* then the slot iterators are taken and the alleles written, the rest filled
\* with 0
SetAlleles1(st, off, ploidy, ch, alleles) ==
    LET cap == st.nl[ch]
        sz == Len(alleles) - cap + 2
        grow == Len(alleles) + 1 > cap
        g1 == IF grow THEN AddLoci(st.g, ch, sz) ELSE st.g
        cap1 == IF grow THEN cap + sz ELSE cap
    IN  [g |-> [g1 EXCEPT ![off][ploidy][ch] = FillSlot(alleles, cap1)],
         nl |-> [st.nl EXCEPT ![ch] = cap1],
         crash |-> st.crash]

\* one region of transmitGenotype1: the first draw end and the coin p
Transmit1Region(st, g, par, off, ploidy, ch) ==
    LET width == ranges[ch][2] - ranges[ch][1]
        slots == [q \in 0..1 |-> g[par][q][ch]]
    IN  UNION {IF end >= width
               THEN {[st EXCEPT !.g = copyChromosome(st.g, slots[p], off, ploidy, ch)]}
               ELSE {SetAlleles1(st, off, ploidy, ch, a) : a \in CrossAlleles(slots, ch, p, end)}
               : end \in 1..width, p \in 0..1}

\* transmitGenotype1(offPop, parent, offIndex, ploidy) from region ch on
RECURSIVE Transmit1From(_, _, _, _, _, _)
Transmit1From(st, g, par, off, ploidy, ch) ==
    IF ch >= NumChrom THEN {st}
    ELSE UNION {Transmit1From(t, g, par, off, ploidy, ch + 1) :
                  t \in Transmit1Region(st, g, par, off, ploidy, ch)}

transmitGenotype1(st, g, par, off, ploidy) == Transmit1From(st, g, par, off, ploidy, 0)

\* both copies of the offspring are taken from mom
RECURSIVE ClonalFromMom(_, _, _, _, _, _)
ClonalFromMom(st, g, mom, dad, off, ch) ==
    IF ch >= NumChrom THEN {st}
    ELSE UNION {ClonalFromMom(
                   [st EXCEPT !.g = copyChromosome(
                        copyChromosome(st.g, g[mom][bm][ch], off, 0, ch),
                        g[mom][bd][ch], off, 1, ch)],
                   g, mom, dad, off, ch + 1)
                : bm \in 0..1, bd \in 0..1}

\* the branch m_rate == 0 of applyDuringMating from region ch on: a coin picks
\* the copy of mom for the offspring's copy 0, another the copy of dad for copy 1
RECURSIVE ClonalFrom(_, _, _, _, _, _)
ClonalFrom(st, g, mom, dad, off, ch) ==
    IF ch >= NumChrom THEN {st}
    ELSE UNION {ClonalFrom(
                   [st EXCEPT !.g = copyChromosome(
                        copyChromosome(st.g, g[mom][bm][ch], off, 0, ch),
                        g[dad][bd][ch], off, 1, ch)],
                   g, mom, dad, off, ch + 1)
                : bm \in 0..1, bd \in 0..1}

\* InfSitesRecombinator::applyDuringMating for offspring off of offPop, by the
\* value of m_rate ("0", "0.5" or "r" for any other rate): mom makes copy 0,
\* dad copy 1.  The set of [g, nl, crash] that can result.
applyDuringMating(rate, st, g, mom, dad, off) ==
    IF rate = "0" THEN ClonalFrom(st, g, mom, dad, off, 0)
    ELSE IF rate = "0.5"
    THEN UNION {IF t.crash THEN {t} ELSE transmitGenotype0(t, g, dad, off, 1) :
                  t \in transmitGenotype0(st, g, mom, off, 0)}
    ELSE UNION {transmitGenotype1(t, g, dad, off, 1) :
                  t \in transmitGenotype1(st, g, mom, off, 0)}

\* the mating scheme starts a generation: offPop has the structure of pop and
\* holds no site yet
MateBegin ==
    /\ pc = "idle"
    /\ PopSize > 0
    /\ pc' = "mating"
    /\ offNumLoci' = numLoci
    /\ offGeno' = EmptyGeno(numLoci)
    /\ offIndex' = 0
    /\ ev' = NoEvent
    /\ UNCHANGED <<cfgVars, popVars, selVars, m_mutants, mutVars, nMut>>

\* one call of applyDuringMating, for offspring offIndex and any two parents
Mate ==
    /\ pc = "mating"
    /\ offIndex < PopSize
    /\ \E mom \in Inds, dad \in Inds :
         \E t \in applyDuringMating(m_rate, [g |-> offGeno, nl |-> offNumLoci, crash |-> FALSE],
                                    geno, mom, dad, offIndex) :
            /\ offGeno' = t.g
            /\ offNumLoci' = t.nl
            /\ pc' = IF t.crash THEN "crashed" ELSE "mating"
            /\ ev' = [NoEvent EXCEPT !.kind = "mated", !.ind = offIndex,
                                     !.mom = mom, !.dad = dad]
    /\ offIndex' = offIndex + 1
    /\ UNCHANGED <<cfgVars, popVars, selVars, m_mutants, mutVars, nMut>>

\* the mating scheme ends the generation: the offspring become the population
MateEnd ==
    /\ pc = "mating"
    /\ offIndex = PopSize
    /\ pc' = "idle"
    /\ geno' = offGeno
    /\ numLoci' = offNumLoci
    /\ offGeno' = EmptyGeno(offNumLoci)
    /\ offIndex' = 0
    /\ ev' = NoEvent
    /\ UNCHANGED <<cfgVars, offNumLoci, selVars, m_mutants, mutVars, nMut>>

-----------------------------------------------------------------------------
(* InfSitesSelector *)

\* Selection coefficients s are counted in tenths and dominance h in halves:
\* h = 1 is the default dominance 0.5.  SCoefs and HCoefs are the values a
\* user's function or a gamma draw returns; a configured constant has its own.
SCoefs == {1, 2}

HCoefs == {0, 1}

HalfDominance == 1

\* the empty SelMap
NoCoefs == [x \in {} |-> <<0, 0>>]

\* m_selFactory[mutant] = SelCoef(s, h)
Store(fac, mutant, sh) ==
    [x \in (DOMAIN fac) \cup {mutant} |-> IF x = mutant THEN sh ELSE fac[x]]

\* the (s, h) a call of getFitnessValue can resolve: whatever the user's
\* function returns, the configured constant, or a gamma draw for s with the
\* configured h
Draws ==
    CASE m_selDist.kind = "func" -> SCoefs \X HCoefs
      [] m_selDist.kind = "constant" -> {<<m_selDist.s, m_selDist.h>>}
      [] OTHER -> {<<s, m_selDist.h>> : s \in SCoefs}

\* whether getFitnessValue stores the pair it resolved: the branch of a
\* user-supplied function (m_selDist.size() == 0) returns before the two lines
\* "m_selFactory[mutant] = SelCoef(s, h); m_newMutants.push_back(mutant);"
StoresCoef(kind) == kind # "func"

\* the flag follows the last dominance resolved: "m_additive = (h == 0.5)"
getFitnessValueLastH(st, mutant, sh) ==
    [used |-> st.used,
     got |-> Append(st.got, <<mutant, sh[1], sh[2]>>),
     fac |-> IF StoresCoef(m_selDist.kind) THEN Store(st.fac, mutant, sh) ELSE st.fac,
     new |-> IF StoresCoef(m_selDist.kind) THEN Append(st.new, mutant) ELSE st.new,
     add |-> sh[2] = HalfDominance,
     now |-> Append(st.now, mutant),
     cnt |-> Store(st.cnt, mutant,
                   IF mutant \in DOMAIN st.cnt THEN 2 ELSE 1)]

\* getFitnessValue(mutant) resolving (s, h) = sh.  st holds the operator's
\* members fac (m_selFactory), new (m_newMutants), add (m_additive) and the
\* record of the calls made: now (those of this apply), cnt (per site, in
\* the run, 2 standing for two or more) and got (the <<site, s, h>> returned
\* within the current indFitness); used is the caller's.
getFitnessValue(st, mutant, sh) ==
    [used |-> st.used,
     got |-> Append(st.got, <<mutant, sh[1], sh[2]>>),
     fac |-> IF StoresCoef(m_selDist.kind) THEN Store(st.fac, mutant, sh) ELSE st.fac,
     new |-> IF StoresCoef(m_selDist.kind) THEN Append(st.new, mutant) ELSE st.new,
     add |-> st.add /\ sh[2] = HalfDominance,
     now |-> Append(st.now, mutant),
     cnt |-> Store(st.cnt, mutant,
                   IF mutant \in DOMAIN st.cnt THEN 2 ELSE 1)]

\* the loop of a fitness function over the sites it looks up, in order: a
\* site found in m_selFactory is read from it, any other is resolved by
\* getFitnessValue.  The set of operator states that can result.
\* st.used collects, entry by entry, the <<site, s, h>> the loop computes with.
RECURSIVE LookupAll(_, _)
LookupAll(st, sites) ==
    IF sites = <<>> THEN {st}
    ELSE IF Head(sites) \in DOMAIN st.fac
    THEN LookupAll([st EXCEPT !.used = Append(@, <<Head(sites)>> \o st.fac[Head(sites)])],
                   Tail(sites))
    ELSE UNION {LookupAll([getFitnessValue(st, Head(sites), sh) EXCEPT
                              !.used = Append(@, <<Head(sites), sh[1], sh[2]>>)],
                          Tail(sites)) :
                  sh \in Draws}

\* the entries a fast path (randomSelAddFitness, randomSelExpFitness) visits:
\* every non-zero entry of the individual's two copies, in genotype order
FastSites(g, i) == SelectSeq(GenoInd(g, i), LAMBDA x : x # 0)

\* the entries a general path (the ...Ext functions) visits: the keys of the
\* MutCounter, each distinct site once, in key order
ExtSites(g, i) == SortedSeq(Sites(GenoInd(g, i)))

\* whether indFitness takes a fast path: m_mode and m_additive as read on entry
TakesFastPath(mode, additive) == mode # "MULTIPLICATIVE" /\ additive

\* Fitness values are exact fractions num / den.  With s in tenths and h in
\* halves, s * h is a number of 1/Scale, s is 2 * s of them and s / 2 is s.
Scale == 10 * 2

\* "sit->second.first / 2" and "getFitnessValue(*it).first / 2.", in 1/Scale
HalfS(u) == u[2]

\* the count is not looked at: every site counts s * h
ExtTermHet(u, count) == u[2] * u[3]

\* the term of a site in a general path: "mit->second == 1" selects s * h,
\* any other count s; in 1/Scale
ExtTerm(u, count) == IF count = 1 THEN u[2] * u[3] ELSE 2 * u[2]

\* the sum a fast path accumulates over the entries it visited
RECURSIVE FastSum(_)
FastSum(used) == IF used = <<>> THEN 0 ELSE HalfS(Head(used)) + FastSum(Tail(used))

\* the sum a general additive or exponential path accumulates over the keys
\* of its MutCounter (all: the non-zero entries it counted)
RECURSIVE ExtSum(_, _)
ExtSum(used, all) ==
    IF used = <<>> THEN 0
    ELSE ExtTerm(Head(used), Count(all, Head(used)[1])) + ExtSum(Tail(used), all)

\* the product randomSelMulFitnessExt accumulates from s = 1: the numerator
\* over Scale ^ Len(used)
RECURSIVE ExtProduct(_, _)
ExtProduct(used, all) ==
    IF used = <<>> THEN 1
    ELSE (Scale - ExtTerm(Head(used), Count(all, Head(used)[1])))
            * ExtProduct(Tail(used), all)

RECURSIVE Power(_, _)
Power(b, n) == IF n = 0 THEN 1 ELSE b * Power(b, n - 1)

\* "return 1 - s > 0 ? 1 - s : 0"
OneMinus(sum) == [kind |-> "ratio", num |-> IF Scale - sum > 0 THEN Scale - sum ELSE 0,
                  den |-> Scale]

\* "return exp(-s)": the value exp(-num / den)
ExpMinus(sum) == [kind |-> "exp", num |-> sum, den |-> Scale]

randomSelAddFitness(used) == OneMinus(FastSum(used))

randomSelExpFitness(used) == ExpMinus(FastSum(used))

randomSelMulFitnessExt(used, all) ==
    [kind |-> "ratio", num |-> ExtProduct(used, all), den |-> Power(Scale, Len(used))]

randomSelAddFitnessExt(used, all) == OneMinus(ExtSum(used, all))

randomSelExpFitnessExt(used, all) == ExpMinus(ExtSum(used, all))

\* InfSitesSelector::indFitness(pop, ind): the [st, fast, fit] that can result,
\* st the operator's state afterwards, fast whether a fast path ran, fit the
\* value returned
indFitness(st, g, i) ==
    LET all == FastSites(g, i)
    IN  IF TakesFastPath(m_mode, st.add)
        THEN {[st |-> t, fast |-> TRUE,
               fit |-> IF m_mode = "ADDITIVE" THEN randomSelAddFitness(t.used)
                       ELSE randomSelExpFitness(t.used)] :
                 t \in LookupAll(st, FastSites(g, i))}
        ELSE {[st |-> t, fast |-> FALSE,
               fit |-> CASE m_mode = "MULTIPLICATIVE" -> randomSelMulFitnessExt(t.used, all)
                         [] m_mode = "ADDITIVE" -> randomSelAddFitnessExt(t.used, all)
                         [] OTHER -> randomSelExpFitnessExt(t.used, all)] :
                 t \in LookupAll(st, ExtSites(g, i))}

SelectorState ==
    [fac |-> m_selFactory, new |-> m_newMutants, add |-> m_additive,
     now |-> resolvedNow, cnt |-> resolveCount, used |-> <<>>, got |-> <<>>]

\* InfSitesSelector::apply is entered: m_newMutants.clear(), then
\* BaseSelector::apply walks the individuals
SelectorApplyBegin ==
    /\ pc = "idle"
    /\ PopSize > 0
    /\ pc' = "select"
    /\ selInd' = 0
    /\ m_newMutants' = <<>>
    /\ resolvedNow' = <<>>
    /\ ev' = NoEvent
    /\ UNCHANGED <<cfgVars, popVars, offVars, m_mutants, mutVars, nMut,
                   m_selFactory, m_additive, resolveCount>>

\* BaseSelector::apply calls indFitness for the next individual
IndFitness ==
    /\ pc = "select"
    /\ selInd < PopSize
    /\ \E r \in indFitness(SelectorState, geno, selInd) :
         /\ m_selFactory' = r.st.fac
         /\ m_newMutants' = r.st.new
         /\ m_additive' = r.st.add
         /\ resolvedNow' = r.st.now
         /\ resolveCount' = r.st.cnt
         /\ ev' = [NoEvent EXCEPT !.kind = "fitness", !.ind = selInd, !.fast = r.fast,
                                  !.used = r.st.used, !.got = r.st.got, !.fit = r.fit]
    /\ selInd' = selInd + 1
    /\ UNCHANGED <<cfgVars, popVars, offVars, m_mutants, pc, mutVars, nMut>>

\* the walk is over: every new mutant is written with its coefficients
SelectorApplyEnd ==
    /\ pc = "select"
    /\ selInd = PopSize
    /\ pc' = "idle"
    /\ selInd' = 0
    /\ ev' = [NoEvent EXCEPT
                !.kind = "selected",
                !.lines = [k \in 1..Len(m_newMutants) |->
                             <<m_newMutants[k]>> \o
                             (IF m_newMutants[k] \in DOMAIN m_selFactory
                              THEN m_selFactory[m_newMutants[k]] ELSE <<0, 0>>)]]
    /\ UNCHANGED <<cfgVars, popVars, offVars, m_mutants, mutVars, nMut,
                   m_selFactory, m_newMutants, m_additive, resolvedNow, resolveCount>>

-----------------------------------------------------------------------------
(* Specifications *)

\* a 0-based array from a tuple
Array(t) == [c \in 0..(Len(t) - 1) |-> t[c + 1]]

OneRegion == << <<1, 4>> >>

TwoRegions == << <<1, 3>>, <<3, 5>> >>

AnyRate == {"0", "0.5", "r"}

ConstantHalf == [kind |-> "constant", s |-> 1, h |-> 1]

\* the operators and the population structure as constructed
InitConfig(layouts, sizes, models, rates, dists, modes) ==
    /\ ranges \in {Array(l) : l \in layouts}
    /\ subPopSizes \in {Array(l) : l \in sizes}
    /\ m_model \in models
    /\ m_rate \in rates
    /\ m_selDist \in dists
    /\ m_mode \in modes

\* the operators' members after construction, no operator running
InitOperators ==
    /\ pc = "idle"
    /\ sp = 0
    /\ indIndex = 0
    /\ loc = 0
    /\ saturated = FALSE
    /\ nMut = 0
    /\ offNumLoci = numLoci
    /\ offGeno = EmptyGeno(numLoci)
    /\ offIndex = 0
    /\ m_selFactory = NoCoefs
    /\ m_newMutants = <<>>
    /\ m_additive = TRUE
    /\ selInd = 0
    /\ resolvedNow = <<>>
    /\ resolveCount = NoCoefs
    /\ ev = NoEvent

\* a new population: every slot empty, nothing registered
InitWith(layouts, sizes, models, rates) ==
    /\ InitConfig(layouts, sizes, models, rates, {ConstantHalf}, {"ADDITIVE"})
    /\ numLoci = [c \in DOMAIN ranges |-> InitLoci]
    /\ geno = EmptyGeno(numLoci)
    /\ m_mutants = {}
    /\ InitOperators

\* the whole system on a population of one individual (which is then both
\* parents of its offspring)
Init ==
    \/ InitWith({OneRegion}, {<<1>>}, {1, 2}, AnyRate)
    \/ InitWith({TwoRegions}, {<<1>>}, {1}, AnyRate)
    \/ InitWith({TwoRegions}, {<<1>>}, {2}, {"0"})

Next ==
    \/ ApplyBegin
    \/ MutationEvent
    \/ MutationBreak
    \/ RevertFixedSites
    \/ MateBegin
    \/ Mate
    \/ MateEnd

Spec == Init /\ [][Next]_vars

\* the mutator and the fixation trimmer on two individuals, in one or two
\* subpopulations
InitMutator == InitWith({OneRegion, TwoRegions}, {<<2>>, <<1, 1>>}, {1, 2}, {"0"})

NextMutator ==
    \/ ApplyBegin
    \/ MutationEvent
    \/ MutationBreak
    \/ RevertFixedSites

SpecMutator == InitMutator /\ [][NextMutator]_vars

\* the selector, on the populations the infinite-allele mutator makes of one
\* individual, for every source of coefficients and every mode
InitSelector ==
    /\ InitConfig({OneRegion}, {<<1>>}, {1}, {"0"},
                  {[kind |-> "func", s |-> 0, h |-> 0],
                   ConstantHalf,
                   [kind |-> "constant", s |-> 2, h |-> 2],
                   [kind |-> "constant", s |-> 12, h |-> 1],
                   [kind |-> "gamma", s |-> 0, h |-> 1]},
                  {"MULTIPLICATIVE", "ADDITIVE", "EXPONENTIAL"})
    /\ numLoci = [c \in DOMAIN ranges |-> InitLoci]
    /\ geno = EmptyGeno(numLoci)
    /\ m_mutants = {}
    /\ InitOperators

NextSelector ==
    \/ ApplyBegin
    \/ MutationEvent
    \/ MutationBreak
    \/ SelectorApplyBegin
    \/ IndFitness
    \/ SelectorApplyEnd

SpecSelector == InitSelector /\ [][NextSelector]_vars

-----------------------------------------------------------------------------
(* Properties of slots *)

\* no site identifier occurs twice in the slot
NoDup(slot) == \A j, k \in 1..Len(slot) : (j # k /\ slot[j] # 0) => slot[j] # slot[k]

\* no non-zero entry follows a 0 entry
PackedLeft(slot) == \A j \in 1..(Len(slot) - 1) : slot[j] = 0 => slot[j + 1] = 0

AllSlots == Inds \X (0..(Ploidy - 1)) \X Chroms

\* the slots of length cap that are packed left and hold sites of S, each once
PackedSlots(S, cap) == {t \in [1..cap -> S \cup {0}] : PackedLeft(t) /\ NoDup(t)}

\* the sites present in both copies of every individual
FixedSet(g) ==
    {x \in PopSites(g) : \A i \in Inds, p \in 0..(Ploidy - 1) : x \in Sites(GenoCopy(g, i, p))}

-----------------------------------------------------------------------------
(* RevertFixedSites::apply on every small population *)

\* slot capacity of the populations RevertFixedSites is applied to
TrimLoci == 2

RegionSites(ch) == ranges[ch][1]..(ranges[ch][2] - 1)

\* the populations of the given structure and slot capacity whose slots are
\* packed left, free of duplicates and hold sites of their own region; the
\* registry has seen them all
InitTrimWith(layouts, sizes, cap) ==
    /\ InitConfig(layouts, sizes, {2}, {"0"}, {ConstantHalf}, {"ADDITIVE"})
    /\ numLoci = [c \in DOMAIN ranges |-> cap]
    /\ geno \in [Inds -> [0..(Ploidy - 1) ->
                   {[c \in Chroms |-> IF c = 0 THEN a ELSE b] :
                       a \in PackedSlots(RegionSites(0), cap),
                       b \in PackedSlots(RegionSites(NumChrom - 1), cap)}]]
    /\ m_mutants = PopSites(geno)
    /\ InitOperators

\* two individuals with one region, one individual with two regions, a
\* population without individuals and populations without loci
InitTrim ==
    \/ InitTrimWith({OneRegion}, {<<2>>}, TrimLoci)
    \/ InitTrimWith({TwoRegions}, {<<1>>}, TrimLoci)
    \/ InitTrimWith({OneRegion}, {<<0>>}, TrimLoci)
    \/ InitTrimWith({OneRegion, TwoRegions}, {<<1>>, <<2>>}, 0)

NextTrim == RevertFixedSites

SpecTrim == InitTrim /\ [][NextTrim]_vars

-----------------------------------------------------------------------------
(* The mutator on a region that starts at position 0 *)

ZeroRegion == << <<0, 3>> >>

InitZero == InitWith({ZeroRegion}, {<<1>>}, {1, 2}, {"0"})

SpecZero == InitZero /\ [][NextMutator]_vars

-----------------------------------------------------------------------------
(* The mutator (model 1) on several region layouts *)

GappedRegions == << <<2, 3>>, <<5, 8>> >>

ThreeRegions == << <<1, 2>>, <<2, 4>>, <<6, 7>> >>

InitCursor ==
    InitWith({OneRegion, TwoRegions, ZeroRegion, GappedRegions, ThreeRegions},
             {<<1>>}, {1}, {"0"})

SpecCursor == InitCursor /\ [][NextMutator]_vars

-----------------------------------------------------------------------------
(* The mutator (model 2) on populations whose registry may be stale *)

\* slot capacity of these populations
StaleLoci == 1

\* one individual with two regions, slots packed left and duplicate-free (the
\* second copy holds sites of the first region only); the registry holds the sites of the population and any other positions, as
\* back mutations, transmissions and fixation trims leave it
InitStale ==
    /\ InitConfig({TwoRegions}, {<<1>>}, {2}, {"0"}, {ConstantHalf}, {"ADDITIVE"})
    /\ numLoci = [c \in DOMAIN ranges |-> StaleLoci]
    /\ geno \in {[i \in Inds |-> [p \in 0..(Ploidy - 1) |->
                      [c \in Chroms |-> IF c = 0 THEN IF p = 0 THEN a ELSE d
                                        ELSE IF p = 0 THEN b
                                        ELSE [k \in 1..StaleLoci |-> 0]]]] :
                       a \in PackedSlots(RegionSites(0), StaleLoci),
                       d \in PackedSlots(RegionSites(0), StaleLoci),
                       b \in PackedSlots(RegionSites(NumChrom - 1), StaleLoci)}
    /\ m_mutants \in {PopSites(geno) \cup T :
                         T \in SUBSET (UNION {RegionSites(c) : c \in Chroms})}
    /\ InitOperators

SpecStale == InitStale /\ [][NextMutator]_vars

-----------------------------------------------------------------------------
(* The whole system with crossing over, infinite-site mode and two regions *)

InitCross == InitWith({TwoRegions}, {<<1>>}, {2}, {"r"})

SpecCross == InitCross /\ [][Next]_vars

-----------------------------------------------------------------------------
(* One generation of mating without recombination, over every small population *)

\* slot capacity of the parents
MateLoci == 1

NarrowRegion == << <<1, 3>> >>

\* two parents with one region, one parent with two regions
InitMate ==
    \/ InitTrimWith({NarrowRegion}, {<<2>>}, MateLoci)
    \/ InitTrimWith({TwoRegions}, {<<1>>}, MateLoci)

NextMate ==
    \/ MateBegin
    \/ Mate

SpecMate == InitMate /\ [][NextMate]_vars

-----------------------------------------------------------------------------
(* Claims *)

\* C1: under the infinite-site policy (model 2), a mutation that is written at
\* its originally mapped position (not logged as relocated) is a new entry, and
\* at the moment of writing the position is in no other slot of the population.
MappedWriteIsUnique ==
    (m_model = 2 /\ ev.kind \in {"new", "back", "nowrite"} /\ ~ev.reloc)
        => /\ ev.kind = "new"
           /\ ev.pos = ev.mapped
           /\ SlotsWith(geno, ev.pos) = {<<ev.ind, ev.p, ev.ch>>}

\* a model-2 mutation written at its mapped position into a population that
\* already holds another site, with the registry knowing more than one position
MappedWriteSeen ==
    /\ m_model = 2
    /\ ev.kind = "new"
    /\ ~ev.reloc
    /\ Cardinality(PopSites(geno)) >= 2
    /\ Cardinality(SlotsWith(geno, ev.pos)) = 1

\* C5: a back mutation (the resolved position is already in the target slot)
\* leaves the slot packed left, with exactly one non-zero entry fewer, without
\* duplicate, without the position, and with every other site it held.
BackMutationRemovesSite ==
    [][ev'.kind = "back" =>
          LET old == geno[ev'.ind][ev'.p][ev'.ch]
              new == geno'[ev'.ind][ev'.p][ev'.ch]
          IN  /\ ev'.pos \in Sites(old)
              /\ PackedLeft(new)
              /\ NonZero(new) = NonZero(old) - 1
              /\ NoDup(new)
              /\ ev'.pos \notin Sites(new)
              /\ Sites(old) \ {ev'.pos} \subseteq Sites(new)]_vars

\* a back mutation has removed a site from a slot that keeps other sites
BackMutationSeen ==
    /\ ev.kind = "back"
    /\ Sites(geno[ev.ind][ev.p][ev.ch]) # {}

\* C6: from the empty population on, whatever the mutator, the recombinator
\* (any rate) and RevertFixedSites do, every slot of the population and of the
\* offspring generation holds each site at most once and is packed left.
SlotsUniqueAndPacked ==
    \A t \in AllSlots :
        /\ NoDup(geno[t[1]][t[2]][t[3]])
        /\ PackedLeft(geno[t[1]][t[2]][t[3]])
        /\ NoDup(offGeno[t[1]][t[2]][t[3]])
        /\ PackedLeft(offGeno[t[1]][t[2]][t[3]])

\* an offspring built with crossing over holds two sites in one slot
CrossedSlotSeen ==
    /\ m_rate = "r"
    /\ ev.kind = "mated"
    /\ \E t \in AllSlots : NonZero(offGeno[t[1]][t[2]][t[3]]) >= 2

\* C2: with rate 0.5, whenever applyDuringMating has built an offspring (the
\* region keeping its capacity), every site that is on both copies of a parent
\* within a region is in the offspring's copy made from that parent: copy 0
\* from mom, copy 1 from dad, whatever the coins.
BothCopiesTransmitted ==
    (ev.kind = "mated" /\ m_rate = "0.5" /\ pc # "crashed" /\ offNumLoci = numLoci)
        => \A ch \in Chroms :
              /\ Sites(geno[ev.mom][0][ch]) \cap Sites(geno[ev.mom][1][ch])
                    \subseteq Sites(offGeno[ev.ind][0][ch])
              /\ Sites(geno[ev.dad][0][ch]) \cap Sites(geno[ev.dad][1][ch])
                    \subseteq Sites(offGeno[ev.ind][1][ch])

\* C3: every site getFitnessValue has resolved is in m_selFactory, was
\* resolved once in the run, and stands exactly once in m_newMutants of the
\* apply that resolved it, whatever the source of the coefficients.
ResolvedIsCachedOnce ==
    /\ \A x \in DOMAIN resolveCount :
          x \in DOMAIN m_selFactory /\ resolveCount[x] = 1
    /\ \A x \in Sites(resolvedNow) : Count(m_newMutants, x) = 1

\* C4: when RevertFixedSites::apply returns, no site that was in both copies of
\* every individual before the call is left in any copy of any individual.
FixedSitesRemoved ==
    [][ev'.kind = "reverted" =>
          \A x \in FixedSet(geno) : x \notin PopSites(geno')]_vars

\* RevertFixedSites has removed a fixed site from a population of two
\* individuals that keeps other sites
FixedSitesRemovedSeen ==
    /\ ev.kind = "reverted"
    /\ ev.fixed # {}
    /\ PopSize = 2
    /\ PopSites(geno) # {}

\* C7: a relocation fails (the mutator becomes saturated) only when every
\* position of the region is in the registry as locateVacantLocus leaves it.
SaturatedOnlyWhenFull ==
    ev.kind = "fail" => \A x \in RegionSites(ev.ch) : x \in m_mutants

\* C8: after a failed relocation, every later mutation of the same apply call
\* changes no slot and not the registry and is logged with code 3, the flag
\* stays set until the call returns, and the call returns.
SaturatedDiscardsAll ==
    [][(pc = "apply" /\ m_model = 2 /\ saturated) =>
          /\ nMut' = nMut + 1 =>
                /\ geno' = geno
                /\ numLoci' = numLoci
                /\ m_mutants' = m_mutants
                /\ ev'.lines = << <<ev'.mapped, ev'.idx, 3>> >>
                /\ pc' = "apply"
          /\ pc' = "apply" => saturated'
          /\ pc' # "apply" => pc' = "idle" /\ ev'.kind = "applied"]_vars

\* a mutation drawn for a later subpopulation is discarded after the failure
DiscardSeen ==
    /\ ev.kind = "reject"
    /\ ev.sp = 1
    /\ ev.lines = << <<ev.mapped, ev.idx, 3>> >>

\* C9: a position returned by locateVacantLocus (a relocation) lies in the
\* region, beg <= position < end, and is not in the registry at that time
\* (the rebuilt registry if the call rebuilt it).
RelocatedIsVacant ==
    [][ev'.reloc =>
          /\ ev'.pos \in RegionSites(ev'.ch)
          /\ ev'.pos \notin (IF ev'.rebuilt THEN Rebuild(geno) ELSE m_mutants)]_vars

\* C10: a mutation drawn for the idx-th individual of subpopulation sp is
\* written to that individual, the one at subPopBegin(sp) + idx.
WrittenToOwnIndividual ==
    ev.kind \in {"new", "back", "nowrite"} => ev.ind = SubPopBegin(ev.sp) + ev.idx

-----------------------------------------------------------------------------
(* Fitness as the selection models define it *)

\* every entry of a site was computed with the same (s, h)
Consistent(used) ==
    \A j, k \in 1..Len(used) : used[j][1] = used[k][1] => used[j] = used[k]

\* the <<site, s, h>> the evaluation computed with for site x
CoefOf(used, x) == used[Min({k \in 1..Len(used) : used[k][1] = x})]

\* the number of haplotype copies of individual i that hold site x
OnCopies(g, i, x) == Cardinality({p \in 0..(Ploidy - 1) : x \in Sites(GenoCopy(g, i, p))})

\* s * h for a site on one copy, s for a site on both, in 1/Scale
SiteEffect(g, i, u) == IF OnCopies(g, i, u[1]) = 1 THEN u[2] * u[3] ELSE 2 * u[2]

RECURSIVE EffectSum(_, _, _, _)
EffectSum(S, g, i, used) ==
    IF S = {} THEN 0
    ELSE LET x == CHOOSE y \in S : TRUE
         IN  SiteEffect(g, i, CoefOf(used, x)) + EffectSum(S \ {x}, g, i, used)

RECURSIVE EffectProduct(_, _, _, _)
EffectProduct(S, g, i, used) ==
    IF S = {} THEN 1
    ELSE LET x == CHOOSE y \in S : TRUE
         IN  (Scale - SiteEffect(g, i, CoefOf(used, x)))
                * EffectProduct(S \ {x}, g, i, used)

\* max(0, 1 - sum), as num / den
AdditiveFitness(g, i, used) ==
    LET sum == EffectSum(Sites(GenoInd(g, i)), g, i, used)
    IN  [kind |-> "ratio", num |-> Max({0, Scale - sum}), den |-> Scale]

\* the product of the factors, as num / den
MultiplicativeFitness(g, i, used) ==
    LET S == Sites(GenoInd(g, i))
    IN  [kind |-> "ratio", num |-> EffectProduct(S, g, i, used),
         den |-> Power(Scale, Cardinality(S))]

\* what a general path computes with for individual i, given the coefficients
\* of an evaluation: one entry per distinct site
GeneralUsed(g, i, used) ==
    LET keys == ExtSites(g, i)
    IN  [k \in 1..Len(keys) |-> CoefOf(used, keys[k])]

\* a fitness value lies in [0, 1], an exponential one in (0, 1]
InUnit(fit) ==
    IF fit.kind = "exp" THEN fit.num >= 0
    ELSE 0 <= fit.num /\ fit.num <= fit.den

\* C11: whenever indFitness has taken the additive fast path, the value it
\* returned is the value of the general additive path for the same individual
\* and the same coefficients, sites first resolved in that evaluation included.
FastAdditiveIsGeneral ==
    (ev.kind = "fitness" /\ m_mode = "ADDITIVE" /\ ev.fast /\ Consistent(ev.used))
        => ev.fit = randomSelAddFitnessExt(GeneralUsed(geno, ev.ind, ev.used),
                                           FastSites(geno, ev.ind))

\* C12: the pure-additive flag is false after any evaluation that resolved an
\* h other than 0.5, and once false it is false in every later state.
AdditiveFlagOneWay ==
    [][/\ (ev'.kind = "fitness"
             /\ \E k \in 1..Len(ev'.got) : ev'.got[k][3] # HalfDominance)
          => ~m_additive'
       /\ ~m_additive => ~m_additive']_vars

\* the flag is down and stays down through an evaluation that resolves
\* dominance 0.5 only
FlagStaysDown ==
    /\ ~m_additive
    /\ ev.kind = "fitness"
    /\ ev.got # <<>>
    /\ \A k \in 1..Len(ev.got) : ev.got[k][3] = HalfDominance

\* C17: every value indFitness returns is in [0, 1] under the additive and the
\* multiplicative model and in (0, 1] under the exponential model.
FitnessInUnit == ev.kind = "fitness" => InUnit(ev.fit)

\* C18: under the additive model the value returned is max(0, 1 - sum), a site
\* on one copy counting s * h and a site on both copies s.
AdditiveIsOneMinusSum ==
    (ev.kind = "fitness" /\ m_mode = "ADDITIVE" /\ Consistent(ev.used))
        => ev.fit = AdditiveFitness(geno, ev.ind, ev.used)

\* C19: under the multiplicative model the value returned is the product over
\* the distinct sites of 1 - s * h (site on one copy) or 1 - s (on both), and
\* exactly 1 for an individual without site.
MultiplicativeIsProduct ==
    (ev.kind = "fitness" /\ m_mode = "MULTIPLICATIVE")
        => /\ Consistent(ev.used)
           /\ ev.fit = MultiplicativeFitness(geno, ev.ind, ev.used)
           /\ Sites(GenoInd(geno, ev.ind)) = {} => ev.fit.num = ev.fit.den

\* a multiplicative evaluation of an individual with a site on both copies and
\* another on one copy
ProductSeen ==
    /\ ev.kind = "fitness"
    /\ m_mode = "MULTIPLICATIVE"
    /\ \E x, y \in Sites(GenoInd(geno, ev.ind)) :
          OnCopies(geno, ev.ind, x) = 2 /\ OnCopies(geno, ev.ind, y) = 1

\* C14: RevertFixedSites::apply on a population without individuals, without
\* loci or without a site that is in both copies of every individual returns
\* and leaves every entry of every slot as it was.
NoFixedSiteNoChange ==
    [][(ev'.kind = "reverted"
          /\ (PopSize = 0 \/ TotNumLoci(numLoci) = 0 \/ FixedSet(geno) = {}))
       => geno' = geno /\ numLoci' = numLoci /\ pc' = "idle"]_vars

\* RevertFixedSites has returned from a population that has no fixed site and
\* a slot whose sites are not in increasing order
UnsortedKept ==
    /\ ev.kind = "reverted"
    /\ ev.fixed = {}
    /\ FixedSet(geno) = {}
    /\ \E t \in AllSlots :
          LET slot == geno[t[1]][t[2]][t[3]]
          IN  Len(slot) >= 2 /\ slot[2] # 0 /\ slot[1] > slot[2]

\* C20: RevertFixedSites::apply removes fixed sites only: every (individual,
\* copy, region) slot holds afterwards exactly the non-fixed sites it held
\* before, also with two regions.
OnlyFixedSitesRemoved ==
    [][ev'.kind = "reverted" =>
          \A t \in AllSlots :
             Sites(geno'[t[1]][t[2]][t[3]])
                = Sites(geno[t[1]][t[2]][t[3]]) \ FixedSet(geno)]_vars

\* the first empty entry of a slot, counting the entries addLoci appends
FirstEmpty(slot) ==
    Min({k \in 1..(Len(slot) + LociAdded) : k > Len(slot) \/ slot[k] = 0})

\* entry k of a slot before the step, 0 for an entry appended by the step
EntryBefore(slot, k) == IF k <= Len(slot) THEN slot[k] ELSE 0

\* C15: a mutation event that resolves to position x for individual i, copy p,
\* with x not yet in that slot, writes x into the slot's first empty entry and
\* changes no other entry of any slot; in infinite-site mode (model 2) the
\* registry holds x afterwards; the last log line of the event is (x, i, 0).
NewMutationWritten ==
    [][(nMut' = nMut + 1 /\ ev'.kind \in {"new", "back", "nowrite"}
          /\ ev'.pos \notin Sites(geno[ev'.ind][ev'.p][ev'.ch]))
       => LET x == ev'.pos
              target == <<ev'.ind, ev'.p, ev'.ch>>
              j == FirstEmpty(geno[ev'.ind][ev'.p][ev'.ch])
          IN  /\ ev'.kind = "new"
              /\ geno'[ev'.ind][ev'.p][ev'.ch][j] = x
              /\ \A t \in AllSlots : \A k \in 1..Len(geno'[t[1]][t[2]][t[3]]) :
                    (t # target \/ k # j)
                       => geno'[t[1]][t[2]][t[3]][k]
                             = EntryBefore(geno[t[1]][t[2]][t[3]], k)
              /\ (m_model = 2 => x \in m_mutants')
              /\ ev'.lines # <<>>
              /\ ev'.lines[Len(ev'.lines)] = <<x, ev'.ind, 0>>]_vars

\* in infinite-site mode a new mutation has been written into a slot that was
\* full and has grown, while the other individual carries a site
NewMutationSeen ==
    /\ ev.kind = "new"
    /\ m_model = 2
    /\ ev.grown
    /\ ev.pos \in m_mutants
    /\ PopSize = 2
    /\ \E p \in 0..(Ploidy - 1), ch \in Chroms : Sites(geno[1 - ev.ind][p][ch]) # {}

\* C13: with recombination rate 0 the offspring's copy 0 is, region by region
\* and entry for entry, one of mom's two slots of that region, and its copy 1
\* one of dad's two: no region mixes the sites of two parental haplotypes.
ClonalCopyOfOneHaplotype ==
    (ev.kind = "mated" /\ m_rate = "0")
       => \A ch \in Chroms :
             /\ offGeno[ev.ind][0][ch] \in {geno[ev.mom][0][ch], geno[ev.mom][1][ch]}
             /\ offGeno[ev.ind][1][ch] \in {geno[ev.dad][0][ch], geno[ev.dad][1][ch]}

\* an offspring of two different parents, each with two different haplotypes,
\* whose copy 0 is not a haplotype of dad and whose copy 1 is not one of mom
ClonalCopySeen ==
    /\ ev.kind = "mated"
    /\ m_rate = "0"
    /\ ev.mom # ev.dad
    /\ geno[ev.mom][0][0] # geno[ev.mom][1][0]
    /\ geno[ev.dad][0][0] # geno[ev.dad][1][0]
    /\ offGeno[ev.ind][0][0] \notin {geno[ev.dad][0][0], geno[ev.dad][1][0]}
    /\ offGeno[ev.ind][1][0] \notin {geno[ev.mom][0][0], geno[ev.mom][1][0]}

\* C16: the mutator never treats 0 as a site, also in a region that starts at
\* 0: no mutation resolves to position 0, 0 is never in the registry and no
\* line logs a new mutation (code 0) at position 0.
ZeroIsNoSite ==
    /\ 0 \notin m_mutants
    /\ ev.kind \in {"new", "back", "nowrite"} => ev.pos # 0
    /\ \A k \in 1..Len(ev.lines) : ~(ev.lines[k][1] = 0 /\ ev.lines[k][3] = 0)

\* the (copy, region, position) triples of the population's structure
AllTriples ==
    UNION {{<<p, ch, x>> : x \in RegionSites(ch)} :
              p \in 0..(Ploidy - 1), ch \in Chroms}

\* the triple a cursor value is mapped to
CursorTriple(l) == <<CursorCopy(l), CursorChrom(l), CursorPos(l)>>

\* C25: every cursor value loc with 1 <= loc <= ploidy * (sum of the region
\* widths) maps to one (copy, region, position) with copy < ploidy and the
\* position inside the region; distinct cursor values map to distinct triples
\* and every triple is the image of a cursor value.
CursorIsBijection ==
    /\ \A l \in 1..indWidth : CursorTriple(l) \in AllTriples
    /\ \A l, m \in 1..indWidth : CursorTriple(l) = CursorTriple(m) => l = m
    /\ {CursorTriple(l) : l \in 1..indWidth} = AllTriples
    /\ (ev.kind \in {"new", "back", "nowrite"} /\ pc = "apply")
          => <<ev.p, ev.ch, ev.mapped>> = CursorTriple(loc)

\* a mutation has been mapped to the last position of the last of three
\* regions, on copy 1
LastTripleSeen ==
    /\ ev.kind = "new"
    /\ pc = "apply"
    /\ NumChrom = 3
    /\ loc = indWidth
    /\ ev.p = 1
    /\ ev.ch = 2
    /\ ev.mapped = ranges[2][2] - 1

\* exp(-sum), as the exponent num / den
ExponentialFitness(g, i, used) ==
    [kind |-> "exp", num |-> EffectSum(Sites(GenoInd(g, i)), g, i, used), den |-> Scale]

\* C27: under the exponential model the value returned is always exp(-sum),
\* the sum over the distinct sites of s * h (site on one copy) or s (on both),
\* whatever the pure-additive flag.
ExponentialIsExpOfSum ==
    (ev.kind = "fitness" /\ m_mode = "EXPONENTIAL" /\ Consistent(ev.used))
        => ev.fit = ExponentialFitness(geno, ev.ind, ev.used)

\* a mutation of the step has gone through locateVacantLocus
RelocationTried == ev'.reloc \/ ev'.rebuilt \/ ev'.kind = "fail"

\* the step has written its mutation at the mapped position as a new site,
\* without relocation, rebuild or a line of code 2
PlacedAtMapped ==
    /\ ev'.kind = "new"
    /\ ev'.pos = ev'.mapped
    /\ ~ev'.reloc
    /\ ~ev'.rebuilt
    /\ \A k \in 1..Len(ev'.lines) : ev'.lines[k][3] # 2
    /\ ev'.mapped \in Sites(geno'[ev'.ind][ev'.p][ev'.ch])

RelocationReturns ==
    ev.rebuilt => (ev.kind \in {"new", "back", "nowrite", "fail"} /\ pc # "crashed")

\* C21: no operator writes through a slot position fetched before a growth of
\* the region: every write after addLoci lands in the grown slot, so a
\* transmission that has grown a region completes and leaves the alleles it
\* collected in the offspring's slot.
WritesLandAfterGrowth ==
    (ev.kind = "mated" /\ \E ch \in Chroms : offNumLoci[ch] > numLoci[ch])
       => /\ pc # "crashed"
          /\ \E ch \in Chroms : \E p \in 0..(Ploidy - 1) :
                NonZero(offGeno[ev.ind][p][ch]) + 1 > numLoci[ch]

\* C26: a region's capacity grows by exactly 10 entries and the entries already
\* stored are preserved, in the mutator (every slot but the one written) and
\* in the transmitters (the offspring made before).
GrowthIsFixedIncrement ==
    [][/\ nMut' = nMut + 1 =>
            /\ \A ch \in Chroms :
                  numLoci'[ch] \in {numLoci[ch], numLoci[ch] + LociAdded}
            /\ \A t \in AllSlots : \A k \in 1..Len(geno'[t[1]][t[2]][t[3]]) :
                  t # <<ev'.ind, ev'.p, ev'.ch>>
                     => geno'[t[1]][t[2]][t[3]][k] = EntryBefore(geno[t[1]][t[2]][t[3]], k)
       /\ offIndex' = offIndex + 1 =>
            /\ \A ch \in Chroms :
                  offNumLoci'[ch] \in {offNumLoci[ch], offNumLoci[ch] + LociAdded}
            /\ \A t \in AllSlots : \A k \in 1..Len(offGeno'[t[1]][t[2]][t[3]]) :
                  t[1] < offIndex
                     => offGeno'[t[1]][t[2]][t[3]][k]
                           = EntryBefore(offGeno[t[1]][t[2]][t[3]], k)]_vars

\* the copy that is active at position x of region ch when the first copy is
\* p0 and the source changes at the offsets in B
ActiveCopy(ch, B, p0, x) ==
    (p0 + Cardinality({b \in B : b <= x - ranges[ch][1]})) % 2

\* slot off holds only sites of the parent's slots par0 and par1, and a
\* parental site of region ch is in it exactly if it lies on the active copy
CrossedFrom(off, par0, par1, ch, B, p0) ==
    /\ Sites(off) \subseteq Sites(par0) \cup Sites(par1)
    /\ \A x \in RegionSites(ch) \cap (Sites(par0) \cup Sites(par1)) :
          x \in Sites(off)
             <=> x \in Sites(IF ActiveCopy(ch, B, p0, x) = 0 THEN par0 ELSE par1)

\* the offsets of region ch at which the source copy can change
Breakpoints(ch) == SUBSET (1..(ranges[ch][2] - ranges[ch][1] - 1))

\* C24: with 0 < r < 0.5 and for every region, there are breakpoints and a
\* first copy such that the offspring's slot holds exactly the parental sites
\* that lie on the copy active on their interval, each once: copy 0 from mom,
\* copy 1 from dad.
CrossoverAlternates ==
    (ev.kind = "mated" /\ m_rate = "r") =>
       \A ch \in Chroms :
          /\ NoDup(offGeno[ev.ind][0][ch])
          /\ NoDup(offGeno[ev.ind][1][ch])
          /\ \E B \in Breakpoints(ch), p0 \in 0..1 :
                CrossedFrom(offGeno[ev.ind][0][ch],
                            geno[ev.mom][0][ch], geno[ev.mom][1][ch], ch, B, p0)
          /\ \E B \in Breakpoints(ch), p0 \in 0..1 :
                CrossedFrom(offGeno[ev.ind][1][ch],
                            geno[ev.dad][0][ch], geno[ev.dad][1][ch], ch, B, p0)

\* C28: in infinite-site mode (model 2), from the empty population and the
\* empty registry on, every site held by a slot of the population or of the
\* offspring generation is in the registry.
HeldSitesAreRegistered ==
    m_model = 2 => (PopSites(geno) \cup PopSites(offGeno)) \subseteq m_mutants

\* a relocation that rebuilt the registry has written its position while
\* another site is held
RebuiltAndPlacedSeen ==
    /\ m_model = 2
    /\ ev.kind = "new"
    /\ ev.reloc
    /\ ev.rebuilt
    /\ PopSites(geno) # {ev.pos}

=============================================================================
